---- MODULE Spec2Model ----
(***************************************************************************)
(* State-machine model of the TD3 trainer of src/src/TD3Model.py.          *)
(*                                                                         *)
(* Numeric conventions.  Every tensor is reduced to one element: the       *)
(* trainer is built with agents = 1 (the constructor default) and a batch  *)
(* holds one transition, so "elementwise" operations act on that element.  *)
(* The actor carries one weight w, the critic one weight per head (q1,     *)
(* q2).  Values are integers on a fixed grid; one Adam step moves a weight *)
(* by one grid unit in the direction of the gradient (Adam's update is     *)
(* lr * m / sqrt(v), a step of size ~lr along the sign of the running      *)
(* mean).  tau and discount are fractions <<numerator, denominator>>.     *)
(* target_Q is kept exactly, as a numerator over the discount's            *)
(* denominator; the soft update rounds to the nearest grid point, as a     *)
(* floating-point product does.                                            *)
(***************************************************************************)
EXTENDS Integers, Sequences, FiniteSets, TLC

VARIABLES
    actor, actor_target, actor_optimizer, actor_grad,
    critic, critic_target, critic_optimizer, critic_grad,
    max_action, discount, tau, policy_noise, noise_clip, policy_freq,
    total_it,
    files,
    saved,
    call,
    hist

nets  == <<actor, actor_target, actor_optimizer, actor_grad,
           critic, critic_target, critic_optimizer, critic_grad>>
hyper == <<max_action, discount, tau, policy_noise, noise_clip, policy_freq>>
vars  == <<nets, hyper, total_it, files, saved, call, hist>>

-----------------------------------------------------------------------------
(* Bounds of the exploration.                                              *)

\* train is not called once total_it has reached this value
MaxIt == 3

\* the same, for the trainers that also save and load checkpoints
MaxCkptIt == 2

\* trainers constructed one after the other over the same checkpoint files
MaxTrainers == 2

-----------------------------------------------------------------------------
(* Constructor arguments and inputs the exploration draws from.            *)

MaxActions   == {4}
Discounts    == {<<9, 10>>}
Taus         == {<<1, 4>>}
PolicyNoises == {2}
NoiseClips   == {3}
PolicyFreqs  == {1, 2, 3}

\* freshly initialised network weights (random in the program)
InitActors  == {[w |-> 1]}
InitCritics == {[q1 |-> 2, q2 |-> -1]}

\* the weights a further trainer may start from
CkptInitCritics == {[q1 |-> 2, q2 |-> -1], [q1 |-> 1, q2 |-> 2]}

\* fields of a sampled transition
States     == {1, 2}
Actions    == {-1, 2}
NextStates == {2}
Rewards    == {-6, 1, 7}
NotDones   == {0, 1}
\* raw samples of torch.randn_like, in units of one standard deviation
Gaussians  == {-2, 1, 2}

Batches == [state : States, action : Actions, next_state : NextStates,
            reward : Rewards, not_done : NotDones, randn : Gaussians]

\* the batches drawn while checkpoints are saved and loaded
CkptBatches == [state : {1}, action : {2}, next_state : NextStates,
                reward : {1}, not_done : NotDones, randn : {1}]

\* policy_freq and tau of the trainers that save and load checkpoints
CkptPolicyFreqs == {1, 2}
CkptTaus        == {<<1, 2>>}

\* checkpoint names passed to save, and to load
SaveNames == {"m"}
Names     == {"m", "p"}

-----------------------------------------------------------------------------
(* Tensor primitives.                                                      *)

Min(a, b) == IF a <= b THEN a ELSE b
Max(a, b) == IF a >= b THEN a ELSE b
Abs(a)    == IF a >= 0 THEN a ELSE -a
Sign(a)   == IF a > 0 THEN 1 ELSE IF a < 0 THEN -1 ELSE 0

\* torch.clamp(x, lo, hi)
Clamp(x, lo, hi) == Min(Max(x, lo), hi)

\* nearest grid point to n / d (d > 0), the rounding of a float product
RoundDiv(n, d) == (2 * n + d) \div (2 * d)

-----------------------------------------------------------------------------
(* Networks.                                                               *)

\* Actor.forward: max_action * tanh(head(features)); tanh is the saturating
\* map onto [-1, 1], here the hard saturation of the linear head
ActorForward(a, s) == Clamp(a.w * s, -max_action, max_action)

\* Critic.forward: both heads read the concatenation of features and action
CriticQ1(c, s, act) == c.q1 * (s + act)
CriticQ2(c, s, act) == c.q2 * (s + act)

\* copy.deepcopy(self.critic), copy.deepcopy(self.actor): every weight copied
CloneCritic(c) == [q1 |-> c.q1, q2 |-> c.q2]
CloneActor(a)  == [w |-> a.w]

ZeroCriticGrad == [q1 |-> 0, q2 |-> 0]
ZeroActorGrad  == [w |-> 0]

\* a fresh torch.optim.Adam: no step taken, no running mean
NewCriticOptimizer == [step |-> 0, exp_avg |-> [q1 |-> 0, q2 |-> 0]]
NewActorOptimizer  == [step |-> 0, exp_avg |-> [w |-> 0]]

\* direction of one Adam update for a weight with gradient g and running
\* mean m: the sign of the gradient, or of the running mean when g = 0
AdamDir(g, m) == IF g # 0 THEN Sign(g) ELSE m

\* Adam.step over one optimizer's weights: the step count and the running
\* mean are the optimizer's state
CriticAdamStep(c, opt, g) ==
    LET d1 == AdamDir(g.q1, opt.exp_avg.q1)
        d2 == AdamDir(g.q2, opt.exp_avg.q2)
    IN  [net |-> [q1 |-> c.q1 - d1, q2 |-> c.q2 - d2],
         opt |-> [step |-> opt.step + 1, exp_avg |-> [q1 |-> d1, q2 |-> d2]]]

ActorAdamStep(a, opt, g) ==
    LET d == AdamDir(g.w, opt.exp_avg.w)
    IN  [net |-> [w |-> a.w - d],
         opt |-> [step |-> opt.step + 1, exp_avg |-> [w |-> d]]]

-----------------------------------------------------------------------------
(* The steps of TD3.train.  Gradients are carried as numerators over the   *)
(* discount's denominator, like target_Q.                                  *)

\* self.total_it += 1
IncrementTotalIt(it) == it + 1

\* (variant: the raw reward is used)
RawReward(r) == r

\* reward = torch.clamp(reward, -max_action, max_action)
ClampReward(r) == Clamp(r, -max_action, max_action)

\* (variant: the scaled noise is not clamped; only the sum is, later)
UnclampedNoise(z) == z * policy_noise

\* noise = (randn_like(action) * policy_noise).clamp(-noise_clip, noise_clip)
Noise(z) == Clamp(z * policy_noise, -noise_clip, noise_clip)

\* next_action = (actor_target(next_state) + noise).clamp(-max_action, max_action)
NextAction(at, ns, noise) ==
    Clamp(ActorForward(at, ns) + noise, -max_action, max_action)

\* (variant: the live critic bootstraps its own target)
TargetQFromLive(ct, ns, na, reward, nd) ==
    discount[2] * reward
        + nd * discount[1] * Min(CriticQ1(critic, ns, na), CriticQ2(critic, ns, na))

\* target_Q = reward + not_done * discount * min(target_Q1, target_Q2)
TargetQ(ct, ns, na, reward, nd) ==
    discount[2] * reward
        + nd * discount[1] * Min(CriticQ1(ct, ns, na), CriticQ2(ct, ns, na))

\* critic_loss.backward(): gradient of mse(Q1, target_Q) + mse(Q2, target_Q)
\* with respect to the two head weights
CriticLossGrad(c, b, tq) ==
    LET x == b.state + b.action
    IN  [q1 |-> 2 * (discount[2] * CriticQ1(c, b.state, b.action) - tq) * x,
         q2 |-> 2 * (discount[2] * CriticQ2(c, b.state, b.action) - tq) * x]

\* (variant: the buffers are not zeroed)
CriticKeepGrad(g) == g

\* critic_optimizer.zero_grad()
CriticZeroGrad(g) == ZeroCriticGrad

\* actor_optimizer.zero_grad()
ActorZeroGrad(g) == ZeroActorGrad

\* backward() adds to the .grad buffers
AddCriticGrad(g, h) == [q1 |-> g.q1 + h.q1, q2 |-> g.q2 + h.q2]
AddActorGrad(g, h)  == [w |-> g.w + h.w]

\* (variants: the test made on the counter before its increment; no test)
PolicyUpdateDueBeforeIncrement(it) == (it - 1) % policy_freq = 0
PolicyUpdateDueAlways(it) == TRUE

\* if self.total_it % self.policy_freq == 0
PolicyUpdateDue(it) == it % policy_freq = 0

\* actor_loss = -critic.Q1(state, actor(state)).mean(); its backward pass
\* reaches the actor weight and, through Q1, the first critic head only
ActorLossGradActor(c, a, s) ==
    [w |-> IF Abs(a.w * s) < max_action THEN -(discount[2] * c.q1 * s) ELSE 0]

ActorLossGradCritic(c, a, s) ==
    [q1 |-> -(discount[2] * (s + ActorForward(a, s))), q2 |-> 0]

\* (variant: tau weighs the target instead of the live weight)
SoftUpdateSwapped(live, target) ==
    RoundDiv((tau[2] - tau[1]) * live + tau[1] * target, tau[2])

\* target_param.data.copy_(tau * param.data + (1 - tau) * target_param.data)
SoftUpdate(live, target) ==
    RoundDiv(tau[1] * live + (tau[2] - tau[1]) * target, tau[2])

SoftUpdateCritic(c, ct) ==
    [q1 |-> SoftUpdate(c.q1, ct.q1), q2 |-> SoftUpdate(c.q2, ct.q2)]

SoftUpdateActor(a, at) == [w |-> SoftUpdate(a.w, at.w)]

-----------------------------------------------------------------------------
(* Checkpoint files.  A file holds one state_dict, tagged with what it is  *)
(* the state of: load_state_dict refuses a state_dict of another shape.    *)

Blob(kind, data) == [kind |-> kind, data |-> data]

\* the names TD3.save passes to logger.save_model
SaveCriticName(name)          == name \o "_critic.pt"
SaveCriticOptimizerName(name) == name \o "_critic_optimizer.pt"
SaveActorName(name)           == name \o "_actor.pt"
SaveActorOptimizerName(name)  == name \o "_actor_optimizer.pt"

\* the names TD3.load passes to torch.load
LoadCriticName(filename)          == filename \o "_critic"
LoadCriticOptimizerName(filename) == filename \o "_critic_optimizer"
LoadActorName(filename)           == filename \o "_actor"
LoadActorOptimizerName(filename)  == filename \o "_actor_optimizer"

\* logger.save_model(state_blob, name, forced): the store keeps the snapshot
\* under exactly the name it is given
SaveModel(fs, blob, fname, forced) ==
    [f \in DOMAIN fs \cup {fname} |-> IF f = fname THEN blob ELSE fs[f]]

\* torch.load(fname) followed by load_state_dict succeeds on a file that
\* exists and holds a state_dict of the expected kind
Loadable(fs, fname, kind) == fname \in DOMAIN fs /\ fs[fname].kind = kind

\* checkpoint files found on disk when the first trainer is constructed:
\* none, a complete checkpoint with prefix "p", and one whose actor file
\* holds an optimizer state
PretrainedCritic == [q1 |-> -1, q2 |-> 3]
PretrainedActor  == [w |-> 2]
PretrainedCriticOptimizer == [step |-> 5, exp_avg |-> [q1 |-> 1, q2 |-> -1]]
PretrainedActorOptimizer  == [step |-> 2, exp_avg |-> [w |-> -1]]

NoFiles == [f \in {} |-> Blob("", 0)]

CriticFiles ==
    SaveModel(SaveModel(NoFiles, Blob("critic", PretrainedCritic),
                        LoadCriticName("p"), FALSE),
              Blob("critic_optimizer", PretrainedCriticOptimizer),
              LoadCriticOptimizerName("p"), FALSE)

CompleteFiles ==
    SaveModel(SaveModel(CriticFiles, Blob("actor", PretrainedActor),
                        LoadActorName("p"), FALSE),
              Blob("actor_optimizer", PretrainedActorOptimizer),
              LoadActorOptimizerName("p"), FALSE)

MixedUpFiles ==
    SaveModel(CompleteFiles, Blob("actor_optimizer", PretrainedActorOptimizer),
              LoadActorName("p"), FALSE)

ExistingFiles == {NoFiles, CompleteFiles, MixedUpFiles}

\* what save(name) last captured, and by which trainer
NoSnapshot == [trainer |-> 0]
Snapshot(n) == [trainer |-> n, critic |-> critic, critic_optimizer |-> critic_optimizer,
                actor |-> actor, actor_optimizer |-> actor_optimizer]

-----------------------------------------------------------------------------
(* Initial state: TD3.__init__.                                            *)

NoBatch == [state |-> 0, action |-> 0, next_state |-> 0,
            reward |-> 0, not_done |-> 0, randn |-> 0]

\* what the last call did: its name, its sampled batch and its locals
\* (grad_before and grad are the critic's .grad buffers on entry and when
\* critic_optimizer.step() runs; fresh tells a load on a trainer that has not
\* trained or loaded yet)
NoCall(op, name) ==
    [op |-> op, name |-> name, fresh |-> FALSE, batch |-> NoBatch, reward |-> 0,
     noise |-> 0, next_action |-> 0, target_Q |-> 0,
     grad_before |-> ZeroCriticGrad, grad |-> ZeroCriticGrad]

\* history of the current trainer object, kept for the statements below:
\* train calls that returned, train calls whose sample raised, soft updates
\* done, whether load was called on it, and which trainer it is
NewHist(n) == [trains |-> 0, raised |-> 0, soft_updates |-> 0,
               loaded |-> FALSE, trainer |-> n]

Constructed(critics, freqs, taus, fileSets) ==
    /\ actor \in InitActors
    /\ actor_target = CloneActor(actor)
    /\ actor_optimizer = NewActorOptimizer
    /\ actor_grad = ZeroActorGrad
    /\ critic \in critics
    /\ critic_target = CloneCritic(critic)
    /\ critic_optimizer = NewCriticOptimizer
    /\ critic_grad = ZeroCriticGrad
    /\ max_action \in MaxActions
    /\ discount \in Discounts
    /\ tau \in taus
    /\ policy_noise \in PolicyNoises
    /\ noise_clip \in NoiseClips
    /\ policy_freq \in freqs
    /\ total_it = 0
    /\ files \in fileSets
    /\ saved = [n \in SaveNames |-> NoSnapshot]
    /\ call = NoCall("init", "")
    /\ hist = NewHist(1)

Init == Constructed(InitCritics, PolicyFreqs, Taus, {NoFiles})

InitCkpt == Constructed(CkptInitCritics, CkptPolicyFreqs, CkptTaus, ExistingFiles)

-----------------------------------------------------------------------------
(* TD3.train.                                                              *)

\* (variant: the counter is incremented after the sample)
TrainSampleRaisesBeforeIncrement ==
    /\ total_it < MaxIt
    /\ call' = NoCall("train_raised", "")
    /\ hist' = [hist EXCEPT !.raised = @ + 1]
    /\ UNCHANGED <<nets, hyper, total_it, files, saved>>

\* replay_buffer.sample raises: the increment has already happened
TrainSampleRaises ==
    /\ total_it < MaxIt
    /\ total_it' = IncrementTotalIt(total_it)
    /\ call' = NoCall("train_raised", "")
    /\ hist' = [hist EXCEPT !.raised = @ + 1]
    /\ UNCHANGED <<nets, hyper, files, saved>>

Train(b) ==
    LET it       == IncrementTotalIt(total_it)
        reward   == ClampReward(b.reward)
        noise    == Noise(b.randn)
        next_act == NextAction(actor_target, b.next_state, noise)
        tq       == TargetQ(critic_target, b.next_state, next_act, reward, b.not_done)
        cgrad    == AddCriticGrad(CriticZeroGrad(critic_grad),
                                  CriticLossGrad(critic, b, tq))
        cstep    == CriticAdamStep(critic, critic_optimizer, cgrad)
        agrad    == AddActorGrad(ActorZeroGrad(actor_grad),
                                 ActorLossGradActor(cstep.net, actor, b.state))
        cgrad2   == AddCriticGrad(cgrad, ActorLossGradCritic(cstep.net, actor, b.state))
        astep    == ActorAdamStep(actor, actor_optimizer, agrad)
    IN  /\ total_it < MaxIt
        /\ total_it' = it
        /\ critic' = cstep.net
        /\ critic_optimizer' = cstep.opt
        /\ call' = [op |-> "train", name |-> "", fresh |-> FALSE, batch |-> b,
                    reward |-> reward, noise |-> noise, next_action |-> next_act,
                    target_Q |-> tq, grad_before |-> critic_grad, grad |-> cgrad]
        /\ IF PolicyUpdateDue(it)
           THEN /\ actor_grad' = agrad
                /\ critic_grad' = cgrad2
                /\ actor' = astep.net
                /\ actor_optimizer' = astep.opt
                /\ critic_target' = SoftUpdateCritic(cstep.net, critic_target)
                /\ actor_target' = SoftUpdateActor(astep.net, actor_target)
                /\ hist' = [hist EXCEPT !.trains = @ + 1, !.soft_updates = @ + 1]
           ELSE /\ critic_grad' = cgrad
                /\ hist' = [hist EXCEPT !.trains = @ + 1]
                /\ UNCHANGED <<actor, actor_target, actor_optimizer, actor_grad,
                               critic_target>>
        /\ UNCHANGED <<hyper, files, saved>>

TrainStep == \E b \in Batches : Train(b)

NextTrain == TrainStep \/ TrainSampleRaises

\* the training protocol: train calls on one trainer, over every batch
Spec == Init /\ [][NextTrain]_vars

-----------------------------------------------------------------------------
(* TD3.save, TD3.load and the construction of a further trainer.           *)

Save(name, forced) ==
    LET f1 == SaveModel(files, Blob("critic", critic), SaveCriticName(name), forced)
        f2 == SaveModel(f1, Blob("critic_optimizer", critic_optimizer),
                        SaveCriticOptimizerName(name), forced)
        f3 == SaveModel(f2, Blob("actor", actor), SaveActorName(name), forced)
        f4 == SaveModel(f3, Blob("actor_optimizer", actor_optimizer),
                        SaveActorOptimizerName(name), forced)
    IN  /\ files' = f4
        /\ saved' = [saved EXCEPT ![name] = Snapshot(hist.trainer)]
        /\ call' = NoCall("save", name)
        /\ UNCHANGED <<nets, hyper, total_it, hist>>

\* (variant: the target critic is not re-cloned)
KeptCriticTarget(c) == critic_target

\* self.critic_target = copy.deepcopy(self.critic), after the critic is loaded
LoadedCriticTarget(c) == CloneCritic(c)

\* self.actor_target = copy.deepcopy(self.actor), after the actor is loaded
LoadedActorTarget(a) == CloneActor(a)

\* The statements of load run in order; the first torch.load or
\* load_state_dict that raises ends the call and keeps what was done so far.
Load(filename) ==
    LET ok1 == Loadable(files, LoadCriticName(filename), "critic")
        ok2 == ok1 /\ Loadable(files, LoadCriticOptimizerName(filename),
                               "critic_optimizer")
        ok3 == ok2 /\ Loadable(files, LoadActorName(filename), "actor")
        ok4 == ok3 /\ Loadable(files, LoadActorOptimizerName(filename),
                               "actor_optimizer")
        c   == IF ok1 THEN files[LoadCriticName(filename)].data ELSE critic
        a   == IF ok3 THEN files[LoadActorName(filename)].data ELSE actor
    IN  /\ critic' = c
        /\ critic_optimizer' =
               IF ok2 THEN files[LoadCriticOptimizerName(filename)].data
                      ELSE critic_optimizer
        /\ critic_target' = IF ok2 THEN LoadedCriticTarget(c) ELSE critic_target
        /\ actor' = a
        /\ actor_optimizer' =
               IF ok4 THEN files[LoadActorOptimizerName(filename)].data
                      ELSE actor_optimizer
        /\ actor_target' = IF ok4 THEN LoadedActorTarget(a) ELSE actor_target
        /\ call' = [NoCall(IF ok4 THEN "load" ELSE "load_raised", filename)
                       EXCEPT !.fresh = hist.trains + hist.raised = 0 /\ ~hist.loaded]
        /\ hist' = [hist EXCEPT !.loaded = TRUE]
        /\ UNCHANGED <<actor_grad, critic_grad, hyper, total_it, files, saved>>

\* a further TD3(...) with the same arguments, the files staying on disk
Construct ==
    /\ hist.trainer < MaxTrainers
    /\ actor' \in InitActors
    /\ actor_target' = CloneActor(actor')
    /\ actor_optimizer' = NewActorOptimizer
    /\ actor_grad' = ZeroActorGrad
    /\ critic' \in CkptInitCritics
    /\ critic_target' = CloneCritic(critic')
    /\ critic_optimizer' = NewCriticOptimizer
    /\ critic_grad' = ZeroCriticGrad
    /\ total_it' = 0
    /\ call' = NoCall("construct", "")
    /\ hist' = NewHist(hist.trainer + 1)
    /\ UNCHANGED <<hyper, files, saved>>

TrainCkptStep == \E b \in CkptBatches : total_it < MaxCkptIt /\ Train(b)
TrainCkptRaises == total_it < MaxCkptIt /\ TrainSampleRaises
SaveStep      == \E name \in SaveNames, forced \in BOOLEAN : Save(name, forced)
LoadStep      == \E filename \in Names : Load(filename)

NextCkpt ==
    \/ TrainCkptStep
    \/ TrainCkptRaises
    \/ SaveStep
    \/ LoadStep
    \/ Construct

\* the lifecycle: trainers that train a little, save, load and are replaced
SpecCkpt == InitCkpt /\ [][NextCkpt]_vars

-----------------------------------------------------------------------------
(* Properties.                                                             *)

\* the two target-critic heads the last train call bootstrapped from; read
\* in an action formula, where the unprimed critic_target is the one the
\* call started with
TargetHead1 == CriticQ1(critic_target, call'.batch.next_state, call'.next_action)
TargetHead2 == CriticQ2(critic_target, call'.batch.next_state, call'.next_action)

PolicyStep == call'.op = "train" /\ total_it' % policy_freq = 0
CriticOnlyStep == call'.op = "train" /\ total_it' % policy_freq # 0

\* C1, counts: on a trainer whose train calls all returned, after n calls
\* total_it = n, the critic optimizer has stepped n times, and the actor
\* optimizer and the soft update have each run floor(n / policy_freq) times.
C1_Counts ==
    hist.raised = 0 =>
        /\ total_it = hist.trains
        /\ critic_optimizer.step = hist.trains
        /\ actor_optimizer.step = hist.trains \div policy_freq
        /\ hist.soft_updates = hist.trains \div policy_freq

\* C1, per call: a train call that returns adds one to total_it and one
\* critic optimizer step; it adds an actor optimizer step and a soft update
\* exactly when the incremented total_it is a multiple of policy_freq.
C1_PerCall ==
    call'.op = "train" =>
        /\ total_it' = total_it + 1
        /\ critic_optimizer'.step = critic_optimizer.step + 1
        /\ IF total_it' % policy_freq = 0
           THEN /\ actor_optimizer'.step = actor_optimizer.step + 1
                /\ hist'.soft_updates = hist.soft_updates + 1
           ELSE /\ actor_optimizer'.step = actor_optimizer.step
                /\ hist'.soft_updates = hist.soft_updates

\* C1: total_it is incremented once per train call, the critic steps on every
\* call, and the actor step and the soft update of both targets happen
\* exactly on the calls whose incremented total_it is a multiple of
\* policy_freq, floor(n / policy_freq) times over n successful calls.
C1_DelayedSchedule == []C1_Counts /\ [][C1_PerCall]_vars

\* two calls with policy_freq = 2: critic stepped twice, actor and targets once
C1_Witness ==
    /\ policy_freq = 2 /\ total_it = 2 /\ hist.trains = 2
    /\ critic_optimizer.step = 2 /\ actor_optimizer.step = 1
    /\ hist.soft_updates = 1

\* C2: a train call whose incremented total_it is not a multiple of
\* policy_freq leaves every weight of actor_target, critic_target and actor
\* (and the actor's optimizer state and gradient buffer, the constructor
\* arguments and the files) exactly as they were.
C2_FrozenBetweenPolicyUpdates ==
    [][CriticOnlyStep =>
          /\ actor_target' = actor_target
          /\ critic_target' = critic_target
          /\ actor' = actor
          /\ actor_optimizer' = actor_optimizer
          /\ actor_grad' = actor_grad
          /\ UNCHANGED <<hyper, files>>]_vars

\* a critic-only call has moved the critic away from a target it left alone
C2_Witness ==
    /\ call.op = "train" /\ total_it % policy_freq # 0
    /\ hist.soft_updates = 0
    /\ critic # critic_target /\ critic_target \in InitCritics

\* new is tau * live + (1 - tau) * old, to the nearest grid point
IsSoftUpdateOf(new, live, old) ==
    2 * Abs(tau[2] * new - (tau[1] * live + (tau[2] - tau[1]) * old)) <= tau[2]

\* C3: after a train call that performs a policy update every target weight
\* equals tau * live + (1 - tau) * old_target, with old_target its value
\* before the call and live the live weight after the call's optimizer steps.
C3_SoftUpdateValue ==
    [][PolicyStep =>
          /\ IsSoftUpdateOf(critic_target'.q1, critic'.q1, critic_target.q1)
          /\ IsSoftUpdateOf(critic_target'.q2, critic'.q2, critic_target.q2)
          /\ IsSoftUpdateOf(actor_target'.w, actor'.w, actor_target.w)]_vars

\* a policy update has moved a target to a value strictly between its start
\* and the live weight
C3_Witness ==
    /\ call.op = "train" /\ total_it % policy_freq = 0
    /\ hist.soft_updates = 1
    /\ critic_target \notin InitCritics
    /\ critic_target # critic

\* C6: target_Q = reward + not_done * discount * min of the two heads of
\* critic_target at (next_state, next_action): it is the clamped reward where
\* not_done = 0, otherwise the reward plus the discounted smaller head; and
\* each live head's gradient is that of its squared distance to this target.
C6_ClippedDoubleQTarget ==
    [][call'.op = "train" =>
          LET b   == call'.batch
              tq  == call'.target_Q
              rew == discount[2] * call'.reward
              x   == b.state + b.action
          IN  /\ b.not_done = 0 => tq = rew
              /\ b.not_done = 1 =>
                    /\ tq - rew <= discount[1] * TargetHead1
                    /\ tq - rew <= discount[1] * TargetHead2
                    /\ tq - rew \in {discount[1] * TargetHead1,
                                     discount[1] * TargetHead2}
              /\ call'.grad.q1 =
                    2 * (discount[2] * CriticQ1(critic, b.state, b.action) - tq) * x
              /\ call'.grad.q2 =
                    2 * (discount[2] * CriticQ2(critic, b.state, b.action) - tq) * x]_vars

\* a bootstrapped target taken while the live critic and its target differ
C6_Witness ==
    /\ call.op = "train" /\ call.batch.not_done = 1
    /\ hist.trains >= 2
    /\ call.target_Q # discount[2] * call.reward

\* C7: the reward term of target_Q is the sampled reward clamped into
\* [-max_action, max_action], also for rewards outside that range.
C7_RewardClamped ==
    [][call'.op = "train" =>
          LET r    == call'.batch.reward
              term == call'.target_Q
                        - call'.batch.not_done * discount[1]
                            * (IF TargetHead1 <= TargetHead2 THEN TargetHead1
                                                              ELSE TargetHead2)
          IN  /\ r > max_action => term = discount[2] * max_action
              /\ r < -max_action => term = discount[2] * (-max_action)
              /\ (-max_action <= r /\ r <= max_action) => term = discount[2] * r]_vars

\* a reward above max_action entered target_Q as max_action
C7_Witness ==
    /\ call.op = "train" /\ call.batch.reward > max_action
    /\ call.batch.not_done = 0
    /\ call.target_Q = discount[2] * max_action

\* C8: the noise added to the target actor's output lies in
\* [-noise_clip, noise_clip] whatever the Gaussian sample, and is the scaled
\* sample itself when that is in range; the sum is clamped to the action
\* range only.
C8_NoiseClipped ==
    [][call'.op = "train" =>
          LET z == call'.batch.randn * policy_noise
              n == call'.noise
              a == ActorForward(actor_target, call'.batch.next_state)
          IN  /\ -noise_clip <= n /\ n <= noise_clip
              /\ Abs(z) <= noise_clip => n = z
              /\ z > noise_clip => n = noise_clip
              /\ z < -noise_clip => n = -noise_clip
              /\ Abs(a + n) <= max_action => call'.next_action = a + n]_vars

\* an out-of-range sample was cut to noise_clip, and the sum passes noise_clip
C8_Witness ==
    /\ call.op = "train"
    /\ call.batch.randn * policy_noise > noise_clip
    /\ call.noise = noise_clip
    /\ call.next_action > noise_clip

\* C9: the gradient buffers critic_optimizer.step() reads hold the gradient
\* of this call's critic loss only, whatever the buffers held on entry, and
\* the critic moves along that gradient.
C9_CriticGradFresh ==
    [][call'.op = "train" =>
          LET g == CriticLossGrad(critic, call'.batch, call'.target_Q)
          IN  /\ call'.grad_before = critic_grad
              /\ call'.grad = g
              /\ critic'.q1 = critic.q1 - AdamDir(g.q1, critic_optimizer.exp_avg.q1)
              /\ critic'.q2 = critic.q2 - AdamDir(g.q2, critic_optimizer.exp_avg.q2)]_vars

\* a train call that found, on entry, what the preceding policy update's
\* actor-loss backward pass had added to the critic's buffers
C9_Witness ==
    /\ call.op = "train" /\ policy_freq = 1 /\ hist.raised = 0 /\ total_it = 2
    /\ call.grad_before.q1 # 0

\* C10: a train call whose sample raises advances total_it by one and changes
\* no network, optimizer or gradient state; total_it counts returned and
\* raised calls alike, and a later call updates the policy exactly when that
\* count is a multiple of policy_freq.
C10_RaisedCallCounts ==
    /\ [](total_it = hist.trains + hist.raised)
    /\ [][call'.op = "train_raised" =>
             /\ total_it' = total_it + 1
             /\ UNCHANGED <<nets, hyper, files>>]_vars
    /\ [][call'.op = "train" =>
             (hist'.soft_updates = hist.soft_updates + 1
                 <=> (hist'.trains + hist'.raised) % policy_freq = 0)]_vars

\* with policy_freq = 2, the first call that returns updates the policy
\* because a raised call came before it
C10_Witness ==
    /\ call.op = "train" /\ policy_freq = 2
    /\ hist.raised = 1 /\ hist.trains = 1
    /\ total_it = 2 /\ hist.soft_updates = 1 /\ actor_optimizer.step = 1

\* C4: after save(name) by one trainer, load(name) on a freshly constructed
\* trainer succeeds and leaves actor, critic and both optimizer states equal
\* to the saved ones.
C4_SaveLoadRoundTrip ==
    (/\ call.op \in {"load", "load_raised"}
     /\ call.fresh
     /\ call.name \in SaveNames
     /\ saved[call.name].trainer \notin {0, hist.trainer})
    => /\ call.op = "load"
       /\ critic = saved[call.name].critic
       /\ critic_optimizer = saved[call.name].critic_optimizer
       /\ actor = saved[call.name].actor
       /\ actor_optimizer = saved[call.name].actor_optimizer

\* C5, state part: right after construction and right after a load that
\* returned, each target equals its live network weight for weight.
C5_ClonedAfterInitAndLoad ==
    call.op \in {"init", "construct", "load"} =>
        /\ actor_target = actor
        /\ critic_target = critic

\* C5, step part: a target weight changes only in a construction, in a load,
\* or in a train call that performs the policy update.
C5_TargetsChangeOnlyBy ==
    (actor_target' # actor_target \/ critic_target' # critic_target) =>
        \/ call'.op \in {"construct", "load", "load_raised"}
        \/ PolicyStep

\* C5: targets are full clones of the live networks after construction and
\* after every successful load, and otherwise change only through the soft
\* update inside train.
C5_TargetLifecycle ==
    []C5_ClonedAfterInitAndLoad /\ [][C5_TargetsChangeOnlyBy]_vars

\* a load that returned on a trainer whose targets had been soft-updated
C5_Witness ==
    /\ call.op = "load" /\ hist.soft_updates >= 1
    /\ critic = PretrainedCritic /\ critic_target = PretrainedCritic
    /\ actor = PretrainedActor /\ actor_target = PretrainedActor

====
